---- MODULE Spec2Model ----
(***************************************************************************)
(* A model of the search and content-organisation core of pebble (api-py): *)
(*   - the Redis-backed full-text index   (app/lib/search.py)              *)
(*   - the background executor that runs index tasks (app/handler/api.py)  *)
(*   - posts with the denormalised children_count (app/model.py)           *)
(*   - the hierarchical tag engine, Tag.rename_or_merge (app/model.py)     *)
(*                                                                         *)
(* Strings of the program (post content, tag names, tokens) are sequences  *)
(* of one-character strings, so that the regular expressions, prefix tests *)
(* and substring replacements of the source are computed, not assumed.     *)
(* The opening tag <span class="hash-tag"> is abbreviated to the three     *)
(* characters <s> and its closing tag </span> to </s>.                     *)
(***************************************************************************)
EXTENDS Integers, Sequences, FiniteSets, TLC

VARIABLES
    \* ---- Redis, keys of the full-text index (prefix fts:) ----
    docTokens,   \* doc:{id}:tokens : function  id -> token-frequency map; its DOMAIN is the set of existing keys
    docCount,    \* doc:count       : <<>> when the key is absent, <<n>> when it holds n
    postings,    \* token:{T}:docs  : set of <<T, id>>  (id is a member of the posting set of T)
    \* ---- observation of the last two FullTextSearch calls made sequentially ----
    ftsCall,     \* [op, id, text, outcome] of the last call
    ftsPrev,     \* [op, id, outcome] of the call before it
    \* ---- the executor of app/handler/api.py ----
    queue,       \* work queue of the ThreadPoolExecutor: tasks in submission order
    workers,     \* worker thread -> its position in the task it runs
    submitted,   \* post id -> the last task submitted for it
    \* ---- relational store ----
    posts,       \* table posts : id -> row; its DOMAIN is the set of existing rows
    nextPostId,  \* next primary key of posts
    tags,        \* table tags  : id -> name; its DOMAIN is the set of existing rows
    links,       \* table tag_post_assoc : set of <<tag_id, post_id>>
    dbCall,      \* [op, id, name, new_name, outcome] of the last request served
    \* ---- observation of the last search ----
    found,       \* [query, partial, limit, outcome, tokens, results] of the last search
    \* ---- a client that pages through GET /get-posts ----
    stamps,      \* columns of table posts the listing reads: id -> [created_at, updated_at, deleted_at]
    pager,       \* the filters of the client, the cursor it was given, the ids it has received
    \* ---- Redis, the key rate:{endpoint} of one rate-limited endpoint, and its requests ----
    rateKey,     \* [value, ttl] : value is <<>> when the key is absent, ttl tells whether it has a time to live
    requests,    \* request -> [pc, rv, window] : its position in inner, the counter it read, the key it counted on
    windows,     \* how many times the key has been created
    \* ---- requests that run Tag.find_or_create side by side ----
    finders,     \* request -> [pc, name, tag] : its position in find_or_create, the name it looks for, the row it returns
    \* ---- the analyzer applied to a text and to its own output ----
    analysis,    \* [stage, text, tokens, again]
    \* ---- a search that runs while the index is written ----
    searching    \* [pc, query, partial, ids, outcome, results] : the position of the search in FullTextSearch.search

vars == <<docTokens, docCount, postings, ftsCall, ftsPrev, queue, workers, submitted,
          posts, nextPostId, tags, links, dbCall, found, stamps, pager,
          rateKey, requests, windows, finders, analysis, searching>>

ftsVars == <<docTokens, docCount, postings, ftsCall, ftsPrev>>
execVars == <<queue, workers, submitted>>
dbVars == <<posts, nextPostId, tags, links, dbCall>>
\* what the index operations, the executor and the post and tag handlers leave alone
pageVars == <<stamps, pager>>
rateVars == <<rateKey, requests, windows>>
lateVars == <<analysis, searching>>
restVars == <<found, pageVars, rateVars, finders, lateVars>>

-----------------------------------------------------------------------------
(* Bounds of the model *)

\* document ids used by the sequential index calls are 1..NumDocs
NumDocs == 2

\* worker threads of the executor
NumWorkers == 2

\* rows of table posts that the listing pages through
NumRows == 3

\* posts per page (POSTS_PER_PAGE of app/config.py, scaled to the table)
PerPage == 2

\* requests that call Tag.find_or_create side by side
NumFinders == 2

\* the retention window of the daily sweep (thirty days), in units of the time stamps
RetentionWindow == 2

\* pieces (a character or a word of Han characters) the texts given to the analyzer are made of
MaxPieces == 3

\* concurrent requests to the rate-limited endpoint
NumRequests == 3

\* max_count of the rate_limit decorator of the endpoint
RateMaxCount == 2

\* tasks that may wait in the queue of the executor
MaxQueue == 2

\* posts created in a run of the posts, the executor and the tag specification
MaxPosts == 3

MaxExecPosts == 1

MaxTagPosts == 1

\* tags the tag specification lets the table hold
MaxTags == 2

\* largest absolute value children_count and doc:count are followed to
MaxCount == 2

\* longest tag name a rename may produce
MaxNameLen == 5

-----------------------------------------------------------------------------
(* Generic helpers *)

Range(s) == {s[i] : i \in DOMAIN s}

\* str.startswith
StartsWith(s, p) == Len(p) <= Len(s) /\ SubSeq(s, 1, Len(p)) = p

\* dict with one key set
Put(f, k, v) == [x \in (DOMAIN f) \cup {k} |-> IF x = k THEN v ELSE f[x]]

\* dict with one key deleted
Del(f, k) == [x \in (DOMAIN f) \ {k} |-> f[x]]

-----------------------------------------------------------------------------
(* The analyzer: app/lib/search.py lines 14-55 *)

WHITESPACE == {" "}

\* the characters of string.punctuation that the model's texts use
PUNCTUATION == {"!", "#", "/", "<", ">"}

STOP_WORDS ==
    { <<"a">>, <<"a","n">>, <<"a","n","d">>, <<"a","r","e">>, <<"a","s">>, <<"a","t">>,
      <<"b","e">>, <<"b","y">>, <<"c","a","n">>, <<"f","o","r">>, <<"f","r","o","m">>,
      <<"h","a","v","e">>, <<"i","f">>, <<"i","n">>, <<"i","s">>, <<"i","t">>,
      <<"m","a","y">>, <<"n","o","t">>, <<"o","f">>, <<"o","n">>, <<"o","r">>,
      <<"t","b","d">>, <<"t","h","a","t">>, <<"t","h","e">>, <<"t","h","i","s">>,
      <<"t","o">>, <<"u","s">>, <<"w","e">>, <<"w","h","e","n">>, <<"w","i","l","l">>,
      <<"w","i","t","h">>, <<"y","e","t">>, <<"y","o","u">>, <<"y","o","u","r">> }

\* HTML_TAG.sub(' ', s) with HTML_TAG = <[^>]*> : a '<' and everything up to the
\* first '>' after it becomes one space; a '<' with no '>' after it stays.
RECURSIVE html_filter(_)
html_filter(s) ==
    IF s = <<>> THEN <<>>
    ELSE IF Head(s) = "<" /\ \E j \in 2..Len(s) : s[j] = ">"
         THEN LET j == CHOOSE k \in 2..Len(s) :
                          s[k] = ">" /\ \A m \in 2..(k - 1) : s[m] # ">"
              IN  <<" ">> \o html_filter(SubSeq(s, j + 1, Len(s)))
         ELSE <<Head(s)>> \o html_filter(Tail(s))

\* PUNCTUATION.sub(' ', s)
punctuation_filter(s) == [i \in DOMAIN s |-> IF s[i] \in PUNCTUATION THEN " " ELSE s[i]]

\* Han characters of the model's texts: 科 (ke), 学 (xue), 院 (yuan), each one
\* character of the text
HAN == {"ke", "xue", "yuan"}

\* the words of the dictionary of jieba (self.FREQ) among the strings over
\* HAN: 科学, 学院, 科学院
FREQ == { <<"ke", "xue">>, <<"xue", "yuan">>, <<"ke", "xue", "yuan">> }

\* length of the longest prefix of s without whitespace and Han characters
RECURSIVE RunLen(_)
RunLen(s) ==
    IF s = <<>> \/ Head(s) \in WHITESPACE \cup HAN THEN 0 ELSE 1 + RunLen(Tail(s))

\* the word jieba.cut takes at a Han character: the longest word of the
\* dictionary that starts there, or the character alone
han_word(s) ==
    LET lens == {n \in 1..Len(s) : SubSeq(s, 1, n) \in FREQ}
    IN  IF lens = {} THEN <<Head(s)>>
        ELSE SubSeq(s, 1, CHOOSE n \in lens : \A m \in lens : m <= n)

\* the substrings of n characters of w that are words of the dictionary, in
\* the order of their position
grams(w, n) ==
    IF Len(w) > n
    THEN SelectSeq([i \in 1..(Len(w) - n + 1) |-> SubSeq(w, i, i + n - 1)],
                   LAMBDA g : g \in FREQ)
    ELSE <<>>

\* what cut_for_search yields for one word w of jieba.cut: the two-character
\* and three-character dictionary words inside w, then w
search_mode(w) == grams(w, 2) \o grams(w, 3) \o <<w>>

\* jieba.cut_for_search on text made of ASCII letters, spaces and Han
\* characters whose runs are composed of dictionary words: a maximal run
\* of letters is one word, a run of Han characters is cut into dictionary
\* words; the whitespace tokens are dropped (token.strip()).
RECURSIVE tokenize(_)
tokenize(s) ==
    IF s = <<>> THEN <<>>
    ELSE IF Head(s) \in WHITESPACE THEN tokenize(Tail(s))
    ELSE LET w == IF Head(s) \in HAN THEN han_word(s) ELSE SubSeq(s, 1, RunLen(s))
         IN  search_mode(w) \o tokenize(SubSeq(s, Len(w) + 1, Len(s)))

\* str.lower of one character
LowerChar(c) == IF c = "P" THEN "p" ELSE IF c = "Q" THEN "q" ELSE c

lower(t) == [i \in DOMAIN t |-> LowerChar(t[i])]

stopword_filter(tokens) == SelectSeq(tokens, LAMBDA t : t \notin STOP_WORDS)

analyze(text) ==
    LET tokens == tokenize(punctuation_filter(html_filter(text)))
    IN  stopword_filter([i \in DOMAIN tokens |-> lower(tokens[i])])

\* ' '.join(tokens)
RECURSIVE join(_)
join(tokens) ==
    IF tokens = <<>> THEN <<>>
    ELSE IF Len(tokens) = 1 THEN tokens[1]
    ELSE tokens[1] \o <<" ">> \o join(Tail(tokens))

\* collections.Counter(tokens): token -> number of occurrences
Counter(tokens) ==
    [t \in Range(tokens) |-> Cardinality({i \in DOMAIN tokens : tokens[i] = t})]

-----------------------------------------------------------------------------
(* Texts handed to the index *)

Texts ==
    { <<>>,                                   \* ""
      <<"!", "#">>,                           \* "!#"       no token
      <<"p", " ", "q">>,                      \* "p q"      p, q
      <<"P", " ", "p">>,                      \* "P p"      p twice
      <<"<", "q", ">", "p", "!">>,            \* "<q>p!"    p       (q is inside a tag)
      <<"a", " ", "q", "<">> }                \* "a q<"     q       (a is a stop word)

DocIds == 1..NumDocs

-----------------------------------------------------------------------------
(* FullTextSearch: app/lib/search.py lines 58-165.                          *)
(* An operation takes the index S = [docTokens, docCount, postings] and     *)
(* returns the index after it and how the call ended.                       *)

EmptyMap == [t \in {} |-> 0]

Store == [docTokens |-> docTokens, docCount |-> docCount, postings |-> postings]

EmptyStore == [docTokens |-> EmptyMap, docCount |-> <<>>, postings |-> {}]

is_indexed(S, id) == id \in DOMAIN S.docTokens

\* int(str(rv)) if rv else 0
doc_count(S) == IF S.docCount = <<>> THEN 0 ELSE S.docCount[1]

\* Redis INCR / DECR: an absent key counts from 0
incr(c) == IF c = <<>> THEN <<1>> ELSE <<c[1] + 1>>

decr(c) == IF c = <<>> THEN <<0 - 1>> ELSE <<c[1] - 1>>

\* json.loads(self.db.get(self._doc_tokens_key(id)) or "{}")
load_tokens(S, id) == IF id \in DOMAIN S.docTokens THEN S.docTokens[id] ELSE EmptyMap

\* the pipeline of index: set, incr, sadd for every distinct token
index_pipe(S, id, tf) ==
    [docTokens |-> Put(S.docTokens, id, tf),
     docCount  |-> incr(S.docCount),
     postings  |-> S.postings \cup {<<t, id>> : t \in DOMAIN tf}]

\* reindex that forgets to remove the id from the posting sets of dropped tokens
reindex_pipe_no_srem(S, id, old, new) ==
    [docTokens |-> Put(S.docTokens, id, new),
     docCount  |-> S.docCount,
     postings  |-> S.postings \cup {<<t, id>> : t \in (DOMAIN new) \ (DOMAIN old)}]

\* reindex that counts the document again
reindex_pipe_incr(S, id, old, new) ==
    [docTokens |-> Put(S.docTokens, id, new),
     docCount  |-> incr(S.docCount),
     postings  |-> (S.postings \ {<<t, id>> : t \in (DOMAIN old) \ (DOMAIN new)})
                       \cup {<<t, id>> : t \in (DOMAIN new) \ (DOMAIN old)}]

\* the pipeline of reindex: set, srem old - new, sadd new - old
reindex_pipe(S, id, old, new) ==
    [docTokens |-> Put(S.docTokens, id, new),
     docCount  |-> S.docCount,
     postings  |-> (S.postings \ {<<t, id>> : t \in (DOMAIN old) \ (DOMAIN new)})
                       \cup {<<t, id>> : t \in (DOMAIN new) \ (DOMAIN old)}]

\* deindex that leaves the id in the posting sets
deindex_pipe_no_srem(S, id, tf) ==
    [docTokens |-> Del(S.docTokens, id),
     docCount  |-> decr(S.docCount),
     postings  |-> S.postings]

\* the pipeline of deindex: delete, decr, srem for every stored token
deindex_pipe(S, id, tf) ==
    [docTokens |-> Del(S.docTokens, id),
     docCount  |-> decr(S.docCount),
     postings  |-> S.postings \ {<<t, id>> : t \in DOMAIN tf}]

\* deindex that does not test the token map it loaded
deindex_unguarded(S, id) ==
    [store |-> deindex_pipe(S, id, load_tokens(S, id)), outcome |-> "deindexed"]

deindex(S, id) ==
    LET token_frequency == load_tokens(S, id)
    IN  IF DOMAIN token_frequency = {}
        THEN [store |-> S, outcome |-> "raised"]
        ELSE [store |-> deindex_pipe(S, id, token_frequency), outcome |-> "deindexed"]

RECURSIVE index(_, _, _), reindex(_, _, _)

\* index that runs its pipeline also when the text has no token
index_unguarded(S, id, text) ==
    IF is_indexed(S, id) THEN reindex(S, id, text)
    ELSE [store |-> index_pipe(S, id, Counter(analyze(text))), outcome |-> "indexed"]

index(S, id, text) ==
    IF is_indexed(S, id) THEN reindex(S, id, text)
    ELSE LET tokens == analyze(text)
         IN  IF tokens = <<>>
             THEN [store |-> S, outcome |-> "noop"]
             ELSE [store |-> index_pipe(S, id, Counter(tokens)), outcome |-> "indexed"]

reindex(S, id, text) ==
    IF ~is_indexed(S, id) THEN index(S, id, text)
    ELSE LET new_tokens == analyze(text)
         IN  IF new_tokens = <<>> THEN deindex(S, id)
             ELSE LET old == load_tokens(S, id)
                  IN  IF DOMAIN old = {}
                      THEN [store |-> S, outcome |-> "raised"]
                      ELSE [store   |-> reindex_pipe(S, id, old, Counter(new_tokens)),
                            outcome |-> "reindexed"]

\* clear_all_indexes whose first pattern misses doc:count
clear_all_indexes_keeps_count(S) ==
    [docTokens |-> EmptyMap, docCount |-> S.docCount, postings |-> {}]

\* db.keys(prefix + 'doc:*') and db.keys(prefix + 'token:*') deleted: doc:count
\* matches the first pattern
clear_all_indexes(S) == [docTokens |-> EmptyMap, docCount |-> <<>>, postings |-> {}]

NoFtsCall == [op |-> "none", id |-> 0, text |-> <<>>, outcome |-> "none"]

\* one sequential call: the index becomes r.store, the call is recorded
FtsReturn(op, id, text, r) ==
    /\ docTokens' = r.store.docTokens
    /\ docCount' = r.store.docCount
    /\ postings' = r.store.postings
    /\ ftsPrev' = [op |-> ftsCall.op, id |-> ftsCall.id, outcome |-> ftsCall.outcome]
    /\ ftsCall' = [op |-> op, id |-> id, text |-> text, outcome |-> r.outcome]
    /\ UNCHANGED <<execVars, dbVars, restVars>>

Index(id, text) ==
    LET r == index(Store, id, text)
    IN  FtsReturn("index", id, text, r)

Reindex(id, text) ==
    LET r == reindex(Store, id, text)
    IN  FtsReturn("reindex", id, text, r)

Deindex(id) ==
    LET r == deindex(Store, id)
    IN  FtsReturn("deindex", id, <<>>, r)

ClearAllIndexes ==
    LET r == [store |-> clear_all_indexes(Store), outcome |-> "cleared"]
    IN  FtsReturn("clear_all_indexes", 0, <<>>, r)

-----------------------------------------------------------------------------
(* Strings: the regular expression and the replacements of app/model.py     *)

Min(S) == CHOOSE x \in S : \A y \in S : x <= y

\* pat occurs in s at position i
Occurs(s, pat, i) == i + Len(pat) - 1 <= Len(s) /\ SubSeq(s, i, i + Len(pat) - 1) = pat

\* str.find from position from, 0 when pat does not occur
Find(s, pat, from) ==
    LET at == {i \in from..(Len(s) - Len(pat) + 1) : Occurs(s, pat, i)}
    IN  IF at = {} THEN 0 ELSE Min(at)

\* str.count of a character
CountChar(s, c) == Cardinality({i \in DOMAIN s : s[i] = c})

\* str.replace(old, new): every non-overlapping occurrence, left to right
RECURSIVE str_replace(_, _, _)
str_replace(s, old, new) ==
    IF Len(s) < Len(old) THEN s
    ELSE IF SubSeq(s, 1, Len(old)) = old
         THEN new \o str_replace(SubSeq(s, Len(old) + 1, Len(s)), old, new)
         ELSE <<Head(s)>> \o str_replace(Tail(s), old, new)

\* <span class="hash-tag"># and </span>
HASH_OPEN == <<"<", "s", ">", "#">>

HASH_CLOSE == <<"<", "/", "s", ">">>

\* the HTML of one hashtag
HashTag(name) == HASH_OPEN \o name \o HASH_CLOSE

\* HASH_PATTERN.findall(content): after each <span class="hash-tag">#, the
\* shortest non-empty text (.+?) that is followed by </span>
RECURSIVE findall(_)
findall(s) ==
    LET i == Find(s, HASH_OPEN, 1)
    IN  IF i = 0 THEN <<>>
        ELSE LET start == i + Len(HASH_OPEN)
                 j == Find(s, HASH_CLOSE, start + 1)
             IN  IF j = 0 THEN <<>>
                 ELSE <<SubSeq(s, start, j - 1)>>
                          \o findall(SubSeq(s, j + Len(HASH_CLOSE), Len(s)))

\* replace_from_start(s, from_str, to), util.replace_prefix
replace_from_start(s, from_str, to) ==
    IF StartsWith(s, from_str) THEN to \o SubSeq(s, Len(from_str) + 1, Len(s)) ELSE s

\* the sequences that list the set S once each (an iteration order of S)
SeqsOf(S) == {f \in [1..Cardinality(S) -> S] : Range(f) = S}

HasDuplicates(q) == \E i, j \in DOMAIN q : i # j /\ q[i] = q[j]

-----------------------------------------------------------------------------
(* Tags: app/model.py lines 46-214.  T is the table tags (id -> name), L the *)
(* table tag_post_assoc, P the table posts.                                 *)

\* Tag.find_by_name: the ids of the rows named name (none or one, name is unique)
find_by_name(T, name) == {t \in DOMAIN T : T[t] = name}

\* Tag.find_or_create: a missing tag is inserted and committed at once (Tag.save)
find_or_create(T, name) ==
    IF find_by_name(T, name) # {} THEN T ELSE Put(T, Cardinality(DOMAIN T) + 1, name)

RECURSIVE find_or_create_all(_, _)
find_or_create_all(T, names) ==
    IF names = <<>> THEN T
    ELSE find_or_create_all(find_or_create(T, Head(names)), Tail(names))

\* Tag.descendants: Tag.name.startswith(self.name + '/')
descendants(T, name) == {t \in DOMAIN T : StartsWith(T[t], name \o <<"/">>)}

\* self.posts.all()
posts_of(L, t) == {l[2] : l \in {m \in L : m[1] = t}}

\* a rename that leaves the content of the posts as it is
rewrite_nothing(P, ps, old_name, new_name) == P

\* post.content.replace(f'>#{old_name}<', f'>#{new_name}<') on the posts of ps
rewrite(P, ps, old_name, new_name) ==
    [p \in DOMAIN P |->
        IF p \in ps
        THEN [P[p] EXCEPT !.content =
                  str_replace(@, <<">", "#">> \o old_name \o <<"<">>,
                                 <<">", "#">> \o new_name \o <<"<">>)]
        ELSE P[p]]

\* Tag._rename
rename(D, t, new_name) ==
    [tags  |-> [D.tags EXCEPT ![t] = new_name],
     links |-> D.links,
     posts |-> rewrite(D.posts, posts_of(D.links, t), D.tags[t], new_name)]

\* Tag._merge: the posts of t are linked to new_tag instead; the row of t stays
merge(D, t, new_tag) ==
    [tags  |-> D.tags,
     links |-> (D.links \ {<<t, p>> : p \in posts_of(D.links, t)})
                   \cup {<<new_tag, p>> : p \in posts_of(D.links, t)},
     posts |-> rewrite(D.posts, posts_of(D.links, t), D.tags[t], D.tags[new_tag])]

\* one tag of the subtree: merged into the tag that has its new name, else renamed
rename_or_merge_one(D, t, new_name) ==
    LET target == find_by_name(D.tags, new_name)
    IN  IF target # {} THEN merge(D, t, CHOOSE x \in target : TRUE)
        ELSE rename(D, t, new_name)

\* the loop over source_tag.descendants, in the order the query returned them
RECURSIVE rename_descendants(_, _, _, _)
rename_descendants(D, order, name, new_name) ==
    IF order = <<>> THEN D
    ELSE rename_descendants(
             rename_or_merge_one(D, Head(order),
                                 replace_from_start(D.tags[Head(order)], name, new_name)),
             Tail(order), name, new_name)

\* a check that lets a move to a direct subtag through
is_subtag_move_deeper(name, new_name) ==
    StartsWith(new_name, name) /\ CountChar(new_name, "/") > CountChar(name, "/") + 1

\* new_name.startswith(name) and new_name.count('/') > name.count('/')
is_subtag_move(name, new_name) ==
    StartsWith(new_name, name) /\ CountChar(new_name, "/") > CountChar(name, "/")

\* Tag.rename_or_merge after its two checks: what the session holds at db.session.commit()
rename_or_merge(D, name, new_name, order) ==
    LET D0 == [D EXCEPT !.tags = find_or_create(D.tags, name)]
        source == CHOOSE t \in find_by_name(D0.tags, name) : TRUE
        target == find_by_name(D0.tags, new_name)
        D1 == rename_descendants(D0, order, name, new_name)
    IN  IF target # {} THEN merge(D1, source, CHOOSE x \in target : TRUE)
        ELSE rename(D1, source, new_name)

Db == [tags |-> tags, links |-> links, posts |-> posts]

DbCall(op, id, name, new_name, outcome) ==
    [op |-> op, id |-> id, name |-> name, new_name |-> new_name, outcome |-> outcome]

\* POST /rename-tag: Tag.rename_or_merge(name, new_name).  order is the order in
\* which the query of Tag.descendants returns the rows (it has no ORDER BY).
RenameTag(name, new_name) ==
    /\ IF name = new_name
       THEN /\ dbCall' = DbCall("rename_or_merge", 0, name, new_name, "noop")
            /\ UNCHANGED <<tags, links, posts>>
       ELSE IF is_subtag_move(name, new_name)
       THEN /\ dbCall' = DbCall("rename_or_merge", 0, name, new_name, "rejected")
            /\ UNCHANGED <<tags, links, posts>>
       ELSE \E order \in SeqsOf(descendants(find_or_create(tags, name), name)) :
               LET D == rename_or_merge(Db, name, new_name, order)
               IN  /\ tags' = D.tags
                   /\ links' = D.links
                   /\ posts' = D.posts
                   /\ dbCall' = DbCall("rename_or_merge", 0, name, new_name, "ok")
    /\ UNCHANGED <<nextPostId, ftsVars, execVars, restVars>>

\* POST /rename-tag when the store fails after Tag.find_or_create(name) (in the
\* loop or at the final commit): the session is rolled back at the end of the
\* request; what find_or_create committed stays.
RenameTagStoreError(name, new_name) ==
    /\ name # new_name
    /\ ~is_subtag_move(name, new_name)
    /\ tags' = find_or_create(tags, name)
    /\ dbCall' = DbCall("rename_or_merge", 0, name, new_name, "error")
    /\ UNCHANGED <<links, posts, nextPostId, ftsVars, execVars, restVars>>

-----------------------------------------------------------------------------
(* Posts and their handlers: app/model.py lines 217-468, app/handler/api.py  *)
(* lines 133-214.  A row is [content, parent_id, children_count, deleted];   *)
(* a nullable column is <<>> for NULL and <<v>> for the value v; deleted is  *)
(* Post.deleted, that is deleted_at is not None.                             *)

NULL == <<>>

\* executor.submit(fn, id, text): the task joins the work queue
Submit(kind, id, text) ==
    LET task == [kind |-> kind, id |-> id, text |-> text]
    IN  /\ queue' = Append(queue, task)
        /\ submitted' = Put(submitted, id, task)
        /\ UNCHANGED workers

\* parent.children_count += delta on the row of the parent column value parent_id
adjust_children(P, parent_id, delta) ==
    IF parent_id = NULL THEN P
    ELSE [P EXCEPT ![parent_id[1]].children_count = @ + delta]

\* POST /create-post: Post(content=..., parent_id=...), post.save(), then the
\* index task.  Post.__init__ creates (and commits) the tags before it looks the
\* parent up.  With a hashtag that the content repeats, tags holds the Tag twice
\* and the flush inserts the row of tag_post_assoc twice: its primary key
\* (tag_id, post_id) refuses the second, post.save() raises IntegrityError.
CreatePost(content, parent_id) ==
    LET names == findall(content)
        T == find_or_create_all(tags, names)
        id == nextPostId
        row == [content |-> content, parent_id |-> parent_id,
                children_count |-> 0, deleted |-> FALSE]
    IN  /\ tags' = T
        /\ IF parent_id # NULL /\ parent_id[1] \notin DOMAIN posts
           THEN \* db.get_or_404(Post, parent_id)
                /\ dbCall' = DbCall("create-post", 0, <<>>, <<>>, "404")
                /\ UNCHANGED <<posts, links, nextPostId, execVars>>
           ELSE IF HasDuplicates(names)
           THEN /\ dbCall' = DbCall("create-post", 0, <<>>, <<>>, "500")
                /\ UNCHANGED <<posts, links, nextPostId, execVars>>
           ELSE /\ posts' = Put(adjust_children(posts, parent_id, 1), id, row)
                /\ links' = links \cup
                       {<<CHOOSE t \in find_by_name(T, n) : TRUE, id>> : n \in Range(names)}
                /\ nextPostId' = id + 1
                /\ Submit("index", id, content)
                /\ dbCall' = DbCall("create-post", id, <<>>, <<>>, "ok")
        /\ UNCHANGED <<ftsVars, restVars>>

\* POST /update-post with the fields content and parent_id; a field is <<>> when
\* it is missing from the payload and <<v>> when it is given.  order is the
\* iteration order of set(HASH_PATTERN.findall(value)).  A given parent_id is
\* NULL or the id of an existing post.
UpdatePost(id, content, parent_id, order) ==
    IF id \notin DOMAIN posts \/ posts[id].deleted
    THEN /\ dbCall' = DbCall("update-post", id, <<>>, <<>>, "404")
         /\ UNCHANGED <<posts, tags, links, nextPostId, ftsVars, execVars, restVars>>
    ELSE
    LET post == posts[id]
        T == find_or_create_all(tags, order)
        \* Tag.save() of a new tag commits the session, post.content = value included
        flushed == IF content # <<>> /\ T # tags
                   THEN [posts EXCEPT ![id].content = content[1]] ELSE posts
        \* post.parent is None while post.parent_id is None: AttributeError
        raises == parent_id # <<>> /\ post.parent_id = NULL /\ parent_id[1] # NULL
        with_content == IF content # <<>>
                        THEN [posts EXCEPT ![id].content = content[1]] ELSE posts
        with_count == IF parent_id # <<>> /\ post.parent_id # NULL /\ parent_id[1] = NULL
                      THEN adjust_children(with_content, post.parent_id, 0 - 1)
                      ELSE with_content
        with_parent == IF parent_id # <<>>
                       THEN [with_count EXCEPT ![id].parent_id = parent_id[1]]
                       ELSE with_count
    IN  /\ tags' = T
        /\ nextPostId' = nextPostId
        /\ UNCHANGED <<ftsVars, restVars>>
        /\ IF raises
           THEN /\ posts' = flushed
                /\ dbCall' = DbCall("update-post", id, <<>>, <<>>, "500")
                /\ UNCHANGED <<links, execVars>>
           ELSE /\ posts' = with_parent
                /\ links' = IF content = <<>> THEN links
                            ELSE {l \in links : l[2] # id} \cup
                                 {<<CHOOSE t \in find_by_name(T, n) : TRUE, id>> :
                                      n \in Range(order)}
                /\ dbCall' = DbCall("update-post", id, <<>>, <<>>, "ok")
                /\ IF content # <<>> /\ content[1] # post.content
                   THEN Submit("reindex", id, content[1])
                   ELSE UNCHANGED execVars

\* POST /delete-post
DeletePost(id, hard) ==
    IF id \notin DOMAIN posts
    THEN /\ dbCall' = DbCall("delete-post", id, <<>>, <<>>, "404")
         /\ UNCHANGED <<posts, tags, links, nextPostId, ftsVars, execVars, restVars>>
    ELSE /\ dbCall' = DbCall(IF hard THEN "clear-post" ELSE "delete-post", id, <<>>, <<>>, "ok")
         /\ UNCHANGED <<tags, nextPostId, ftsVars, restVars>>
         /\ IF hard
            THEN \* Post.clear: the row goes, its links go (CASCADE), the parent_id
                 \* of its children becomes NULL (SET NULL)
                 /\ posts' = [p \in (DOMAIN posts) \ {id} |->
                                  IF posts[p].parent_id = <<id>>
                                  THEN [posts[p] EXCEPT !.parent_id = NULL]
                                  ELSE posts[p]]
                 /\ links' = {l \in links : l[2] # id}
                 /\ Submit("deindex", id, <<>>)
            ELSE \* Post.delete
                 /\ posts' = [adjust_children(posts, posts[id].parent_id, 0 - 1)
                                  EXCEPT ![id].deleted = TRUE]
                 /\ UNCHANGED <<links, execVars>>

\* POST /restore-post: Post.restore
RestorePost(id) ==
    IF id \notin DOMAIN posts
    THEN /\ dbCall' = DbCall("restore-post", id, <<>>, <<>>, "404")
         /\ UNCHANGED <<posts, tags, links, nextPostId, ftsVars, execVars, restVars>>
    ELSE /\ posts' = [adjust_children(posts, posts[id].parent_id, 1)
                          EXCEPT ![id].deleted = FALSE]
         /\ dbCall' = DbCall("restore-post", id, <<>>, <<>>, "ok")
         /\ UNCHANGED <<tags, links, nextPostId, ftsVars, execVars, restVars>>

\* the posts of a tag alone, without those of its descendants
posts_under_self_only(T, L, name) ==
    UNION {posts_of(L, t) : t \in find_by_name(T, name)}

\* tag.posts for tag in [self] + self.descendants
posts_under(T, L, name) ==
    UNION {posts_of(L, t) : t \in find_by_name(T, name) \cup descendants(T, name)}

\* post.deleted_at = deleted_at (or None) on every post under the tag
set_deleted(P, ps, deleted) ==
    [p \in DOMAIN P |-> IF p \in ps THEN [P[p] EXCEPT !.deleted = deleted] ELSE P[p]]

\* POST /delete-tag: Tag.find_by_name(name), then Tag.delete
DeleteTag(name) ==
    /\ IF find_by_name(tags, name) = {}
       THEN /\ dbCall' = DbCall("delete-tag", 0, name, <<>>, "400")
            /\ UNCHANGED posts
       ELSE /\ posts' = set_deleted(posts, posts_under(tags, links, name), TRUE)
            /\ dbCall' = DbCall("delete-tag", 0, name, <<>>, "ok")
    /\ UNCHANGED <<tags, links, nextPostId, ftsVars, execVars, restVars>>

\* Tag.restore on the tag of the name
RestoreTag(name) ==
    /\ find_by_name(tags, name) # {}
    /\ posts' = set_deleted(posts, posts_under(tags, links, name), FALSE)
    /\ dbCall' = DbCall("restore-tag", 0, name, <<>>, "ok")
    /\ UNCHANGED <<tags, links, nextPostId, ftsVars, execVars, restVars>>

\* the rows the bulk DELETE of ids leaves behind.  fk tells whether the
\* connection enforces foreign keys (PRAGMA foreign_keys is set on the
\* connection of the start-up only): ON DELETE SET NULL on posts.parent_id
bulk_delete_posts(P, ids, fk) ==
    [p \in (DOMAIN P) \ ids |->
        IF fk /\ P[p].parent_id # NULL /\ P[p].parent_id[1] \in ids
        THEN [P[p] EXCEPT !.parent_id = NULL]
        ELSE P[p]]

\* ON DELETE CASCADE on tag_post_assoc.post_id
bulk_delete_links(L, ids, fk) == IF fk THEN {l \in L : l[2] \notin ids} ELSE L

\* the deindex tasks of clear_posts, one per id in the order of the list
deindex_tasks(order) ==
    [i \in DOMAIN order |-> [kind |-> "deindex", id |-> order[i], text |-> <<>>]]

\* POST /clear-posts: Post.clear_all() deletes every soft-deleted row, then one
\* deindex task per deleted id is submitted.  order is the order of the ids in
\* the list the query returned.
ClearPosts(order, fk) ==
    LET ids == {p \in DOMAIN posts : posts[p].deleted}
    IN  /\ Range(order) = ids
        /\ posts' = bulk_delete_posts(posts, ids, fk)
        /\ links' = bulk_delete_links(links, ids, fk)
        /\ queue' = queue \o deindex_tasks(order)
        /\ submitted' = [id \in DOMAIN submitted \cup ids |->
                             IF id \in ids
                             THEN [kind |-> "deindex", id |-> id, text |-> <<>>]
                             ELSE submitted[id]]
        /\ dbCall' = DbCall("clear-posts", 0, <<>>, <<>>, "ok")
        /\ UNCHANGED <<workers, tags, nextPostId, ftsVars, restVars>>

\* the daily task clear_posts of app/task.py: the rows deleted more than thirty
\* days ago are removed with one bulk DELETE.  old is the set of those rows (the
\* clock is not part of the state); nothing is submitted to the executor.
RetentionSweep(old, fk) ==
    /\ old \subseteq {p \in DOMAIN posts : posts[p].deleted}
    /\ posts' = bulk_delete_posts(posts, old, fk)
    /\ links' = bulk_delete_links(links, old, fk)
    /\ dbCall' = DbCall("retention-sweep", 0, <<>>, <<>>, "ok")
    /\ UNCHANGED <<tags, nextPostId, ftsVars, execVars, restVars>>

-----------------------------------------------------------------------------
(* FullTextSearch.search and _rank: app/lib/search.py lines 177-261.  A score *)
(* is a fixed-point number: math.log10 in thousandths (a table of log10(k)),  *)
(* math.sqrt in hundredths, integer arithmetic in between.  log10 of 1 is     *)
(* exactly 0 and equal inputs give equal scores, as with the floats.          *)

\* math.log10(k) * 1000 for k = 1..8
LOG10_MILLI == <<0, 301, 477, 602, 699, 778, 845, 903>>

\* math.sqrt(k) * 100 for k = 1..9
SQRT_CENTI == <<100, 141, 173, 200, 224, 245, 265, 283, 300>>

\* self.db.smembers(self._token_docs_key(token))
smembers(S, token) == {l[2] : l \in {m \in S.postings : m[1] = token}}

\* a candidate set with set.union and set.intersection exchanged
candidate_ids_swapped(S, tokens, partial) ==
    IF tokens = <<>> THEN {}
    ELSE IF ~partial THEN UNION {smembers(S, tokens[i]) : i \in DOMAIN tokens}
    ELSE {id \in smembers(S, tokens[1]) : \A i \in DOMAIN tokens : id \in smembers(S, tokens[i])}

\* reduce(op, indexes): the union or the intersection of the posting sets of the tokens
candidate_ids(S, tokens, partial) ==
    IF tokens = <<>> THEN {}
    ELSE IF partial THEN UNION {smembers(S, tokens[i]) : i \in DOMAIN tokens}
    ELSE {id \in smembers(S, tokens[1]) : \A i \in DOMAIN tokens : id \in smembers(S, tokens[i])}

RECURSIVE SumTo(_, _)
SumTo(f, n) == IF n = 0 THEN 0 ELSE f[n] + SumTo(f, n - 1)

\* sum(token_freq.values())
total_terms(token_freq) ==
    LET ts == CHOOSE q \in SeqsOf(DOMAIN token_freq) : TRUE
    IN  SumTo([i \in DOMAIN ts |-> token_freq[ts[i]]], Len(ts))

\* the score _rank gives document id for the query tokens
score(S, tokens, id) ==
    LET token_freq == load_tokens(S, id)
        total_docs == S.docCount[1]
        tf(i) == IF tokens[i] \in DOMAIN token_freq THEN token_freq[tokens[i]] ELSE 0
        df(i) == Cardinality(smembers(S, tokens[i]))
        normalized_tf(i) == IF tf(i) > 0 THEN 1000 + LOG10_MILLI[tf(i)] ELSE 0
        \* math.log10(max(1, total_docs / df)) if df > 0 else 0
        idf(i) == IF df(i) > 0 /\ total_docs > df(i)
                  THEN LOG10_MILLI[total_docs] - LOG10_MILLI[df(i)] ELSE 0
        sum == SumTo([i \in DOMAIN tokens |-> normalized_tf(i) * idf(i)], Len(tokens))
        terms == total_terms(token_freq)
        by_length == IF terms > 0 THEN (sum * 100) \div SQRT_CENTI[terms] ELSE sum
        matching_terms == Cardinality({i \in DOMAIN tokens : tf(i) > 0})
    IN  IF matching_terms = Len(tokens) THEN by_length * 2
        ELSE (by_length * matching_terms) \div Len(tokens)

\* _rank: one (id, score) pair per id, in the order of ids
rank(S, tokens, ids) == [i \in DOMAIN ids |-> <<ids[i], score(S, tokens, ids[i])>>]

\* sorted(..., key=lambda x: x[1], reverse=True): stable, so pairs of equal
\* score stay in the order they had
RECURSIVE sorted_by_score(_)
sorted_by_score(pairs) ==
    IF pairs = <<>> THEN <<>>
    ELSE LET rest == sorted_by_score(SubSeq(pairs, 1, Len(pairs) - 1))
             x == pairs[Len(pairs)]
             before == {j \in DOMAIN rest : rest[j][2] >= x[2]}
             k == Cardinality(before)
         IN  SubSeq(rest, 1, k) \o <<x>> \o SubSeq(rest, k + 1, Len(rest))

\* seq[:n] of Python: the first n elements, or all but the last -n when n < 0
slice_to(seq, n) ==
    IF n >= 0 THEN SubSeq(seq, 1, Min({n, Len(seq)}))
    ELSE SubSeq(seq, 1, IF Len(seq) + n > 0 THEN Len(seq) + n ELSE 0)

SearchResult(outcome, tokens, results) ==
    [outcome |-> outcome, tokens |-> tokens, results |-> results]

\* if limit and len(ids) > limit: ranked_results = ranked_results[:limit]
truncate(ranked, ids, limit) ==
    IF limit # 0 /\ Len(ids) > limit THEN slice_to(ranked, limit) ELSE ranked

\* FullTextSearch.search; ids is the list made of the candidate set, in the
\* iteration order of that set
search(S, query, partial, limit, ids) ==
    LET tokens == analyze(query)
    IN  IF tokens = <<>> \/ ids = <<>> THEN SearchResult("empty", tokens, <<>>)
        ELSE IF S.docCount = <<>> \/ \E i \in DOMAIN ids : ids[i] \notin DOMAIN S.docTokens
        THEN \* int(None) or json.loads(None)
             SearchResult("raised", tokens, <<>>)
        ELSE SearchResult("found", tokens,
                 truncate(sorted_by_score(rank(S, tokens, ids)), ids, limit))

\* one call of search on the index
Search(query, partial, limit) ==
    \E ids \in SeqsOf(candidate_ids(Store, analyze(query), partial)) :
        LET r == search(Store, query, partial, limit, ids)
        IN  /\ found' = [query |-> query, partial |-> partial, limit |-> limit,
                         outcome |-> r.outcome, tokens |-> r.tokens,
                         results |-> r.results]
            /\ UNCHANGED <<ftsVars, execVars, dbVars, pageVars, rateVars, finders, lateVars>>

\* A search beside the writers of the index.  search reads the posting sets of
\* its tokens (smembers), makes the list ids of them and then sends the
\* pipeline of _rank; another client's commands run between the two.

NoSearching == [pc |-> "none", query |-> <<>>, partial |-> FALSE, ids |-> <<>>,
                outcome |-> "none", results |-> <<>>]

\* search up to ids: analyze, smembers per token, reduce, the early returns
SearchRead(query, partial) ==
    /\ searching.pc \in {"none", "done"}
    /\ \E ids \in SeqsOf(candidate_ids(Store, analyze(query), partial)) :
           searching' =
               IF analyze(query) = <<>> \/ ids = <<>>
               THEN [pc |-> "done", query |-> query, partial |-> partial, ids |-> ids,
                     outcome |-> "empty", results |-> <<>>]
               ELSE [pc |-> "rank", query |-> query, partial |-> partial, ids |-> ids,
                     outcome |-> "none", results |-> <<>>]
    /\ UNCHANGED <<ftsVars, execVars, dbVars, found, pageVars, rateVars, finders, analysis>>

\* _rank on the ids read before, on the index as it is now, and the sort
SearchRank ==
    /\ searching.pc = "rank"
    /\ LET r == search(Store, searching.query, searching.partial, 0, searching.ids)
       IN  searching' = [searching EXCEPT !.pc = "done", !.outcome = r.outcome,
                                          !.results = r.results]
    /\ UNCHANGED <<ftsVars, execVars, dbVars, found, pageVars, rateVars, finders, analysis>>

-----------------------------------------------------------------------------
(* The executor: app/handler/api.py line 27, ThreadPoolExecutor().  Its      *)
(* worker threads take the tasks in submission order and run them side by    *)
(* side.  A task is a call of fts.index, fts.reindex or fts.deindex; each    *)
(* Redis round trip of the call (exists, get, the pipeline) is one step.     *)

Workers == 1..NumWorkers

Idle == [pc |-> "idle", id |-> 0, text |-> <<>>, tf |-> EmptyMap]

AllDone == queue = <<>> /\ \A w \in Workers : workers[w].pc = "idle"

\* a worker thread takes the oldest task of the queue and enters its function
TakeTask(w) ==
    /\ workers[w].pc = "idle"
    /\ queue # <<>>
    /\ workers' = [workers EXCEPT ![w] =
                       [pc |-> Head(queue).kind, id |-> Head(queue).id,
                        text |-> Head(queue).text, tf |-> EmptyMap]]
    /\ queue' = Tail(queue)
    /\ UNCHANGED <<submitted, ftsVars, dbVars, restVars>>

\* FullTextSearch.index up to its pipeline: is_indexed, analyze
IndexCheck(w) ==
    LET me == workers[w]
        tokens == analyze(me.text)
    IN  /\ me.pc = "index"
        /\ workers' = [workers EXCEPT ![w] =
               IF is_indexed(Store, me.id) THEN [me EXCEPT !.pc = "reindex"]
               ELSE IF tokens = <<>> THEN Idle
               ELSE [me EXCEPT !.pc = "index_pipe", !.tf = Counter(tokens)]]
        /\ UNCHANGED <<queue, submitted, ftsVars, dbVars, restVars>>

\* FullTextSearch.reindex up to its read of the old map: is_indexed, analyze
ReindexCheck(w) ==
    LET me == workers[w]
    IN  /\ me.pc = "reindex"
        /\ workers' = [workers EXCEPT ![w] =
               IF ~is_indexed(Store, me.id) THEN [me EXCEPT !.pc = "index"]
               ELSE IF analyze(me.text) = <<>> THEN [me EXCEPT !.pc = "deindex"]
               ELSE [me EXCEPT !.pc = "reindex_load"]]
        /\ UNCHANGED <<queue, submitted, ftsVars, dbVars, restVars>>

\* FullTextSearch.reindex: the get of the old map; an empty one raises
ReindexLoad(w) ==
    LET me == workers[w]
        old == load_tokens(Store, me.id)
    IN  /\ me.pc = "reindex_load"
        /\ workers' = [workers EXCEPT ![w] =
               IF DOMAIN old = {} THEN Idle
               ELSE [me EXCEPT !.pc = "reindex_pipe", !.tf = old]]
        /\ UNCHANGED <<queue, submitted, ftsVars, dbVars, restVars>>

\* FullTextSearch.deindex: the get of the stored map; an empty one raises
DeindexLoad(w) ==
    LET me == workers[w]
        token_frequency == load_tokens(Store, me.id)
    IN  /\ me.pc = "deindex"
        /\ workers' = [workers EXCEPT ![w] =
               IF DOMAIN token_frequency = {} THEN Idle
               ELSE [me EXCEPT !.pc = "deindex_pipe", !.tf = token_frequency]]
        /\ UNCHANGED <<queue, submitted, ftsVars, dbVars, restVars>>

\* pipe.execute(): the queued commands run as one transaction
PipeExecute(w) ==
    LET me == workers[w]
        S == IF me.pc = "index_pipe" THEN index_pipe(Store, me.id, me.tf)
             ELSE IF me.pc = "reindex_pipe"
                  THEN reindex_pipe(Store, me.id, me.tf, Counter(analyze(me.text)))
                  ELSE deindex_pipe(Store, me.id, me.tf)
    IN  /\ me.pc \in {"index_pipe", "reindex_pipe", "deindex_pipe"}
        /\ docTokens' = S.docTokens
        /\ docCount' = S.docCount
        /\ postings' = S.postings
        /\ workers' = [workers EXCEPT ![w] = Idle]
        /\ UNCHANGED <<queue, submitted, ftsCall, ftsPrev, dbVars, restVars>>

-----------------------------------------------------------------------------
(* GET /get-posts: app/handler/api.py lines 109-120 and Post.filter_posts,   *)
(* app/model.py lines 325-396, with the filters deleted, order_by, ascending *)
(* and cursor.  Times are the milliseconds of ms_now, counted from 1.        *)

MaxTime == NumRows + 1

SortingFields == {"created_at", "updated_at", "deleted_at"}

\* the timestamps row id can have: ids are given in the order of creation,
\* every UPDATE sets updated_at (onupdate=ms_now), a soft delete sets
\* deleted_at and is an UPDATE
PostStamps(id) ==
    {[created_at |-> id, updated_at |-> u, deleted_at |-> d] :
         u \in id..MaxTime, d \in {NULL} \cup {<<t>> : t \in id..MaxTime}}

RECURSIVE StampTables(_)
StampTables(n) ==
    IF n = 0 THEN {<<>>}
    ELSE {Append(T, r) : T \in StampTables(n - 1),
                         r \in {x \in PostStamps(n) :
                                    x.deleted_at # NULL => x.deleted_at[1] <= x.updated_at}}

\* getattr(Post, order_by) of a row, as a nullable value
order_field(row, order_by) ==
    IF order_by = "created_at" THEN <<row.created_at>>
    ELSE IF order_by = "updated_at" THEN <<row.updated_at>>
    ELSE row.deleted_at

\* the place of a value in ORDER BY: SQLite puts NULL before every value
sort_key(v) == IF v = NULL THEN 0 ELSE v[1]

\* the lists query.all() can return: the rows that pass the filters, ordered by
\* the order field (rows of equal value in any order), cut to per_page.  A
\* comparison with NULL is not true.
filter_posts(T, cursor, deleted, order_by, ascending, per_page) ==
    LET value(id) == order_field(T[id], order_by)
        matching == {id \in DOMAIN T : (T[id].deleted_at # NULL) = deleted}
        selected == IF cursor # NULL /\ cursor[1] # 0
                    THEN {id \in matching :
                              /\ value(id) # NULL
                              /\ IF ascending THEN value(id)[1] > cursor[1]
                                 ELSE value(id)[1] < cursor[1]}
                    ELSE matching
        ordered == {q \in SeqsOf(selected) :
                        \A i, j \in DOMAIN q :
                            i < j => IF ascending
                                     THEN sort_key(value(q[i])) <= sort_key(value(q[j]))
                                     ELSE sort_key(value(q[i])) >= sort_key(value(q[j]))}
    IN  {slice_to(q, per_page) : q \in ordered}

\* PostPagination(posts=posts, cursor=posts[-1].created_at if posts else -1, ...)
PostPagination(T, page) ==
    [posts |-> page,
     cursor |-> IF page # <<>> THEN T[page[Len(page)]].created_at ELSE 0 - 1]

NoPager == [calls |-> 0, deleted |-> FALSE, order_by |-> "created_at",
            ascending |-> FALSE, cursor |-> NULL, seen |-> <<>>, done |-> FALSE]

\* one GET /get-posts of the client: it records the filters, the ids of the
\* page and the cursor of the response; an empty page ends its listing
GetPosts(cursor, deleted, order_by, ascending) ==
    \E page \in filter_posts(stamps, cursor, deleted, order_by, ascending, PerPage) :
        LET response == PostPagination(stamps, page)
        IN  /\ pager' = [calls |-> pager.calls + 1, deleted |-> deleted,
                         order_by |-> order_by, ascending |-> ascending,
                         cursor |-> <<response.cursor>>,
                         seen |-> pager.seen \o response.posts,
                         done |-> response.posts = <<>>]
            /\ UNCHANGED <<ftsVars, execVars, dbVars, found, stamps, rateVars, finders, lateVars>>

-----------------------------------------------------------------------------
(* GET /_dangerously_rebuild_all_indexes: app/handler/api.py lines 312-324.  *)
(* The generator runs in the thread of the request, not on the executor.     *)

RECURSIVE index_each(_, _, _)
\* for post in posts: fts.index(post.id, post.content)
index_each(S, P, order) ==
    IF order = <<>> THEN S
    ELSE index_each(index(S, Head(order), P[Head(order)].content).store, P, Tail(order))

\* a rebuild that indexes the posts on top of what the index holds
rebuild_without_clear(S, P, order) == index_each(S, P, order)

\* fts.clear_all_indexes(), then index of every row the query returned
rebuild_all(S, P, order) == index_each(clear_all_indexes(S), P, order)

\* the request, run to its end; order is the order of the rows of
\* Post.query.with_entities(Post.id, Post.content).all()
RebuildIndexes(order) ==
    LET S == rebuild_all(Store, posts, order)
    IN  /\ Range(order) = DOMAIN posts
        /\ docTokens' = S.docTokens
        /\ docCount' = S.docCount
        /\ postings' = S.postings
        /\ dbCall' = DbCall("rebuild", 0, <<>>, <<>>, "ok")
        /\ UNCHANGED <<ftsCall, ftsPrev, posts, tags, links, nextPostId, execVars, restVars>>

-----------------------------------------------------------------------------
(* The daily task clear_posts of app/task.py lines 10-20, on the time stamps *)
(* of the table: which rows its DELETE selects at the time now.              *)

\* a filter that also takes the rows deleted exactly one window ago
older_or_equal(T, threshold) ==
    {id \in DOMAIN T : T[id].deleted_at # NULL /\ T[id].deleted_at[1] <= threshold}

\* Post.deleted_at < threshold: a NULL deleted_at does not pass the comparison
older_than(T, threshold) ==
    {id \in DOMAIN T : T[id].deleted_at # NULL /\ T[id].deleted_at[1] < threshold}

\* Post.query.filter(Post.deleted_at < thirty_days_ago).delete(); commit
SweepAt(now) ==
    /\ stamps' = [id \in DOMAIN stamps \ older_than(stamps, now - RetentionWindow) |->
                      stamps[id]]
    /\ UNCHANGED <<pager, ftsVars, execVars, dbVars, found, rateVars, finders, lateVars>>

-----------------------------------------------------------------------------
(* Tag.find_or_create in requests that run side by side: app/model.py lines  *)
(* 68-78 and 209-211.  The SELECT of find_by_name and the INSERT and COMMIT  *)
(* of save are separate statements; column name is unique (line 49).         *)

Finders == 1..NumFinders

NoFinder == [pc |-> "start", name |-> <<>>, tag |-> 0]

\* tag = Tag.find_by_name(name); if not tag: tag = Tag(name=name)
FindByName(c, name) ==
    /\ finders[c].pc = "start"
    /\ finders' = [finders EXCEPT ![c] =
                       IF find_by_name(tags, name) # {}
                       THEN [pc |-> "returned", name |-> name,
                             tag |-> CHOOSE t \in find_by_name(tags, name) : TRUE]
                       ELSE [pc |-> "save", name |-> name, tag |-> 0]]
    /\ UNCHANGED <<tags, posts, nextPostId, links, dbCall, ftsVars, execVars,
                   found, pageVars, rateVars, lateVars>>

\* tag.save(): INSERT and COMMIT; the unique index on name refuses a second
\* row of the name with IntegrityError, which find_or_create does not catch
TagSave(c) ==
    /\ finders[c].pc = "save"
    /\ IF find_by_name(tags, finders[c].name) # {}
       THEN /\ finders' = [finders EXCEPT ![c].pc = "raised"]
            /\ UNCHANGED tags
       ELSE /\ tags' = Put(tags, Cardinality(DOMAIN tags) + 1, finders[c].name)
            /\ finders' = [finders EXCEPT ![c].pc = "returned",
                                          ![c].tag = Cardinality(DOMAIN tags) + 1]
    /\ UNCHANGED <<posts, nextPostId, links, dbCall, ftsVars, execVars,
                   found, pageVars, rateVars, lateVars>>

\* the request has ended; the thread serves the next one
NextRequest(c) ==
    /\ finders[c].pc \in {"returned", "raised"}
    /\ finders' = [finders EXCEPT ![c] = NoFinder]
    /\ UNCHANGED <<dbVars, ftsVars, execVars, found, pageVars, rateVars, lateVars>>

-----------------------------------------------------------------------------
(* rate_limit(max_count, expires): app/middleware.py lines 125-157.  Every   *)
(* request runs inner: one pipeline (MULTI ... EXEC, one step of the Redis   *)
(* server), then abort(429) or the view function.  Redis removes the key     *)
(* when its time to live is over.                                            *)

Requests == 1..NumRequests

AbsentKey == [value |-> NULL, ttl |-> FALSE]

\* SET key 0 EX expires NX: written only when the key is absent
set_nx_ex(K) == IF K.value = NULL THEN [value |-> <<0>>, ttl |-> TRUE] ELSE K

\* INCR key: an absent key counts from 0 and gets no time to live
rate_incr(K) ==
    IF K.value = NULL THEN [value |-> <<1>>, ttl |-> FALSE]
    ELSE [K EXCEPT !.value = <<K.value[1] + 1>>]

\* a pipeline whose SET has no NX: every request writes 0 again
rate_pipe_without_nx(K) == rate_incr([value |-> <<0>>, ttl |-> TRUE])

\* pipe.set(key, 0, ex=expires, nx=True).incr(key); pipe.execute()
rate_pipe(K) == rate_incr(set_nx_ex(K))

NewRequest == [pc |-> "start", rv |-> 0, window |-> 0]

\* _, rv = pipe.execute()
RatePipeExecute(r) ==
    /\ requests[r].pc = "start"
    /\ rateKey' = rate_pipe(rateKey)
    /\ windows' = IF rateKey.value = NULL THEN windows + 1 ELSE windows
    /\ requests' = [requests EXCEPT ![r] =
                        [pc |-> "checked", rv |-> rateKey'.value[1], window |-> windows']]
    /\ UNCHANGED <<ftsVars, execVars, dbVars, found, pageVars, finders, lateVars>>

\* if rv > max_count: abort(429)
Abort429(r) ==
    /\ requests[r].pc = "checked"
    /\ requests[r].rv > RateMaxCount
    /\ requests' = [requests EXCEPT ![r].pc = "429"]
    /\ UNCHANGED <<rateKey, windows, ftsVars, execVars, dbVars, found, pageVars, finders, lateVars>>

\* else: return view_func(*args, **kw)
ViewFunc(r) ==
    /\ requests[r].pc = "checked"
    /\ ~(requests[r].rv > RateMaxCount)
    /\ requests' = [requests EXCEPT ![r].pc = "view"]
    /\ UNCHANGED <<rateKey, windows, ftsVars, execVars, dbVars, found, pageVars, finders, lateVars>>

\* the time to live of the key is over
KeyExpires ==
    /\ rateKey.value # NULL /\ rateKey.ttl
    /\ rateKey' = AbsentKey
    /\ UNCHANGED <<requests, windows, ftsVars, execVars, dbVars, found, pageVars, finders, lateVars>>

-----------------------------------------------------------------------------
(* analyze applied to a text, and again to its tokens joined with spaces *)

NoAnalysis == [stage |-> "none", text |-> <<>>, tokens |-> <<>>, again |-> <<>>]

\* tokens = analyze(text)
Analyze ==
    /\ analysis.stage = "text"
    /\ analysis' = [analysis EXCEPT !.stage = "analyzed", !.tokens = analyze(analysis.text)]
    /\ UNCHANGED <<ftsVars, execVars, dbVars, found, pageVars, rateVars, finders, searching>>

\* analyze(' '.join(tokens))
AnalyzeAgain ==
    /\ analysis.stage = "analyzed"
    /\ analysis' = [analysis EXCEPT !.stage = "again",
                                    !.again = analyze(join(analysis.tokens))]
    /\ UNCHANGED <<ftsVars, execVars, dbVars, found, pageVars, rateVars, finders, searching>>

-----------------------------------------------------------------------------
(* State after construction: empty Redis, empty tables, idle executor *)

NoDbCall == DbCall("none", 0, <<>>, <<>>, "none")

NoSearch == [query |-> <<>>, partial |-> FALSE, limit |-> 0, outcome |-> "none",
             tokens |-> <<>>, results |-> <<>>]

Init ==
    /\ docTokens = EmptyMap
    /\ docCount = <<>>
    /\ postings = {}
    /\ ftsCall = NoFtsCall
    /\ ftsPrev = [op |-> "none", id |-> 0, outcome |-> "none"]
    /\ queue = <<>>
    /\ workers = [w \in Workers |-> Idle]
    /\ submitted = EmptyMap
    /\ posts = EmptyMap
    /\ nextPostId = 1
    /\ tags = EmptyMap
    /\ links = {}
    /\ dbCall = NoDbCall
    /\ found = NoSearch
    /\ stamps = <<>>
    /\ pager = NoPager
    /\ rateKey = AbsentKey
    /\ requests = [r \in Requests |-> NewRequest]
    /\ windows = 0
    /\ finders = [c \in Finders |-> NoFinder]
    /\ analysis = NoAnalysis
    /\ searching = NoSearching

\* Sequential use of one FullTextSearch instance
NextFts ==
    \/ \E id \in DocIds, text \in Texts : Index(id, text)
    \/ \E id \in DocIds, text \in Texts : Reindex(id, text)
    \/ \E id \in DocIds : Deindex(id)
    \/ ClearAllIndexes

SpecFts == Init /\ [][NextFts]_vars

-----------------------------------------------------------------------------
(* Searches on an index that sequential index calls build.  A search leaves  *)
(* the index as it is and found keeps the last search only, so the index is  *)
(* built first and then searched once.                                      *)

SearchTexts == { <<"p", " ", "q">>, <<"P", " ", "p">>, <<"<", "q", ">", "p", "!">> }

Queries == { <<"p">>, <<"q">>, <<"p", " ", "q">>, <<"!">> }

Limits == (0 - 1)..NumDocs

NextSearch ==
    \/ \E id \in DocIds, text \in SearchTexts : found = NoSearch /\ Index(id, text)
    \/ \E id \in DocIds : found = NoSearch /\ Deindex(id)
    \/ \E query \in Queries, partial \in BOOLEAN, limit \in Limits :
           found = NoSearch /\ Search(query, partial, limit)

SpecSearch == Init /\ [][NextSearch]_vars

\* A search in two steps while index, deindex and clear_all_indexes go on
NextSearchRace ==
    \/ \E id \in DocIds, text \in SearchTexts : Index(id, text)
    \/ \E id \in DocIds : Deindex(id)
    \/ ClearAllIndexes
    \/ \E query \in Queries, partial \in BOOLEAN : SearchRead(query, partial)
    \/ SearchRank

SpecSearchRace == Init /\ [][NextSearchRace]_vars

-----------------------------------------------------------------------------
(* A client lists a table of posts page by page: the first request has no    *)
(* cursor, every later one repeats the filters and passes the cursor of the  *)
(* response before it.  Nothing writes to the table meanwhile.               *)

InitPages ==
    /\ docTokens = EmptyMap
    /\ docCount = <<>>
    /\ postings = {}
    /\ ftsCall = NoFtsCall
    /\ ftsPrev = [op |-> "none", id |-> 0, outcome |-> "none"]
    /\ queue = <<>>
    /\ workers = [w \in Workers |-> Idle]
    /\ submitted = EmptyMap
    /\ posts = EmptyMap
    /\ nextPostId = 1
    /\ tags = EmptyMap
    /\ links = {}
    /\ dbCall = NoDbCall
    /\ found = NoSearch
    /\ stamps \in StampTables(NumRows)
    /\ pager = NoPager
    /\ rateKey = AbsentKey
    /\ requests = [r \in Requests |-> NewRequest]
    /\ windows = 0
    /\ finders = [c \in Finders |-> NoFinder]
    /\ analysis = NoAnalysis
    /\ searching = NoSearching

NextPages ==
    \/ \E deleted \in BOOLEAN, order_by \in SortingFields, ascending \in BOOLEAN :
           pager.calls = 0 /\ GetPosts(NULL, deleted, order_by, ascending)
    \/ /\ pager.calls > 0 /\ ~pager.done /\ Len(pager.seen) <= NumRows
       /\ GetPosts(pager.cursor, pager.deleted, pager.order_by, pager.ascending)

SpecPages == InitPages /\ [][NextPages]_vars

-----------------------------------------------------------------------------
(* Concurrent requests to one rate-limited endpoint, and the expiry of its key *)

NextRate ==
    \/ \E r \in Requests : RatePipeExecute(r)
    \/ \E r \in Requests : Abort429(r)
    \/ \E r \in Requests : ViewFunc(r)
    \/ KeyExpires

SpecRate == Init /\ [][NextRate]_vars

-----------------------------------------------------------------------------
(* Posts and children_count: create, soft delete, restore, update(parent_id). *)
(* The index tasks these requests submit stay in the queue: they touch Redis  *)
(* only.                                                                      *)

PlainContent == <<"p">>

\* a parent_id column value: NULL or an existing post
ParentIds == {NULL} \cup {<<p>> : p \in DOMAIN posts}

\* every children_count is within the range the specification follows
CountsWithin(P) ==
    \A p \in DOMAIN P : P[p].children_count \in (0 - MaxCount)..MaxCount

NextPosts ==
    \/ \E parent_id \in {NULL} \cup {<<p>> : p \in 1..MaxPosts} :
           nextPostId <= MaxPosts /\ CreatePost(PlainContent, parent_id)
    \/ \E id \in DOMAIN posts : DeletePost(id, FALSE) /\ CountsWithin(posts')
    \/ \E id \in DOMAIN posts : RestorePost(id) /\ CountsWithin(posts')
    \/ \E id \in DOMAIN posts, parent_id \in ParentIds :
           UpdatePost(id, <<>>, <<parent_id>>, <<>>) /\ CountsWithin(posts')

SpecPosts == Init /\ [][NextPosts]_vars

-----------------------------------------------------------------------------
(* One post and the executor: create-post, update-post(content), hard delete, *)
(* and the worker threads.                                                    *)

ExecTexts == { <<"p">>, <<"P", " ", "q">>, <<"!">> }

NextExec ==
    \/ \E content \in ExecTexts :
           /\ nextPostId <= MaxExecPosts /\ Len(queue) < MaxQueue
           /\ CreatePost(content, NULL)
    \/ \E id \in DOMAIN posts, content \in ExecTexts :
           /\ Len(queue) < MaxQueue
           /\ UpdatePost(id, <<content>>, <<>>, <<>>)
    \/ \E id \in DOMAIN posts :
           /\ Len(queue) < MaxQueue
           /\ DeletePost(id, TRUE)
    \/ \E w \in Workers : TakeTask(w)
    \/ \E w \in Workers : IndexCheck(w)
    \/ \E w \in Workers : ReindexCheck(w)
    \/ \E w \in Workers : ReindexLoad(w)
    \/ \E w \in Workers : DeindexLoad(w)
    \/ \E w \in Workers :
           PipeExecute(w) /\ doc_count(Store') \in (0 - MaxCount)..MaxCount

SpecExec == Init /\ [][NextExec]_vars

-----------------------------------------------------------------------------
(* One post, the executor and every way a row is hard-deleted: delete-post   *)
(* with hard = true, clear-posts after a soft delete, the retention sweep.   *)

NextPurge ==
    \/ NextExec
    \/ \E id \in DOMAIN posts : DeletePost(id, FALSE)
    \/ \E order \in SeqsOf({p \in DOMAIN posts : posts[p].deleted}), fk \in BOOLEAN :
           /\ order # <<>>
           /\ Len(queue) + Len(order) <= MaxQueue
           /\ ClearPosts(order, fk)
    \/ \E old \in SUBSET {p \in DOMAIN posts : posts[p].deleted}, fk \in BOOLEAN :
           old # {} /\ RetentionSweep(old, fk)

SpecPurge == Init /\ [][NextPurge]_vars

-----------------------------------------------------------------------------
(* The tag engine: posts with hashtags and rename-tag requests.               *)

TagA == <<"a">>
TagAB == <<"a", "/", "b">>
TagABB == <<"a", "/", "b", "/", "b">>
TagX == <<"x">>
\* the names a rename-tag request moves, and the names it moves them to
TagNames == {TagA, TagAB, TagX}

NewTagNames == TagNames \cup {TagABB}

TagContents ==
    { HashTag(TagA), HashTag(TagAB) \o <<" ", "p">>, HashTag(TagABB),
      HashTag(TagX) \o HashTag(TagA) }

\* the names the tags of the subtree of name get when it moves to new_name
NewNames(name, new_name) ==
    {replace_from_start(tags[t], name, new_name) :
         t \in descendants(tags, name) \cup find_by_name(tags, name)} \cup {new_name}

NextTags ==
    \/ \E content \in TagContents :
           /\ nextPostId <= MaxTagPosts
           /\ CreatePost(content, NULL)
           /\ Cardinality(DOMAIN tags') <= MaxTags
    \/ \E name \in TagNames, new_name \in NewTagNames :
           /\ \A n \in NewNames(name, new_name) : Len(n) <= MaxNameLen
           /\ RenameTag(name, new_name)
           /\ Cardinality(DOMAIN tags') <= MaxTags
    \/ \E name \in TagNames, new_name \in NewTagNames :
           /\ \A n \in NewNames(name, new_name) : Len(n) <= MaxNameLen
           /\ RenameTagStoreError(name, new_name)
           /\ Cardinality(DOMAIN tags') <= MaxTags

SpecTags == Init /\ [][NextTags]_vars

-----------------------------------------------------------------------------
(* Hashtags and links: create-post, update-post(content) and rename-tag on   *)
(* contents with one hashtag, two hashtags and one hashtag written twice.    *)

LinkContents == TagContents \cup {HashTag(TagA) \o HashTag(TagA), PlainContent}

NextLinks ==
    \/ \E content \in LinkContents :
           /\ nextPostId <= MaxTagPosts
           /\ CreatePost(content, NULL)
           /\ Cardinality(DOMAIN tags') <= MaxTags
    \/ \E id \in DOMAIN posts, content \in LinkContents :
           \E order \in SeqsOf(Range(findall(content))) :
               /\ Len(queue) < MaxQueue
               /\ UpdatePost(id, <<content>>, <<>>, order)
               /\ Cardinality(DOMAIN tags') <= MaxTags
    \/ \E name \in TagNames, new_name \in NewTagNames :
           /\ \A n \in NewNames(name, new_name) : Len(n) <= MaxNameLen
           /\ RenameTag(name, new_name)
           /\ Cardinality(DOMAIN tags') <= MaxTags

SpecLinks == Init /\ [][NextLinks]_vars

-----------------------------------------------------------------------------
(* create-post with and without hashtags, under no parent, a stored parent   *)
(* or a parent_id that no post has.                                          *)

GivenParents == {NULL} \cup {<<p>> : p \in 1..(MaxPosts + 1)}

NextReject ==
    \E content \in LinkContents, parent_id \in GivenParents :
        /\ nextPostId <= MaxPosts
        /\ CreatePost(content, parent_id)
        /\ Cardinality(DOMAIN tags') <= MaxTags

SpecReject == Init /\ [][NextReject]_vars

-----------------------------------------------------------------------------
(* Posts with hashtags, soft deletion and restoration of posts and of tags *)

NextTagPosts ==
    \/ \E content \in TagContents \cup {PlainContent} :
           nextPostId <= MaxPosts /\ CreatePost(content, NULL)
    \/ \E id \in DOMAIN posts : DeletePost(id, FALSE)
    \/ \E id \in DOMAIN posts : RestorePost(id)
    \/ \E name \in TagNames : DeleteTag(name)
    \/ \E name \in TagNames : RestoreTag(name)

SpecTagPosts == Init /\ [][NextTagPosts]_vars

-----------------------------------------------------------------------------
(* The daily sweep runs on a table of posts, at times when the time stamps   *)
(* of the table are in the past.                                             *)

SweepTimes == MaxTime..(MaxTime + RetentionWindow + 1)

NextSweep == \E now \in SweepTimes : SweepAt(now)

SpecSweep == InitPages /\ [][NextSweep]_vars

-----------------------------------------------------------------------------
(* A rebuild on any index: the keys of the index hold what failed or lost    *)
(* tasks may have left (maps of posts that are gone, missing maps, stale     *)
(* members of posting sets, any doc:count), the table holds any posts.       *)

PostRow(content) ==
    [content |-> content, parent_id |-> NULL, children_count |-> 0, deleted |-> FALSE]

PostTables == UNION {[ids -> {PostRow(c) : c \in ExecTexts}] : ids \in SUBSET DocIds}

TokenMaps == {Counter(<<<<"p">>>>), Counter(<<<<"p">>, <<"q">>>>)}

InitRebuild ==
    /\ docTokens \in UNION {[ids -> TokenMaps] : ids \in SUBSET DocIds}
    /\ docCount \in {<<>>, <<0>>, <<NumDocs + 1>>}
    /\ postings \in SUBSET ({<<"p">>, <<"q">>} \X DocIds)
    /\ ftsCall = NoFtsCall
    /\ ftsPrev = [op |-> "none", id |-> 0, outcome |-> "none"]
    /\ queue = <<>>
    /\ workers = [w \in Workers |-> Idle]
    /\ submitted = EmptyMap
    /\ posts \in PostTables
    /\ nextPostId = NumDocs + 1
    /\ tags = EmptyMap
    /\ links = {}
    /\ dbCall = NoDbCall
    /\ found = NoSearch
    /\ stamps = <<>>
    /\ pager = NoPager
    /\ rateKey = AbsentKey
    /\ requests = [r \in Requests |-> NewRequest]
    /\ windows = 0
    /\ finders = [c \in Finders |-> NoFinder]
    /\ analysis = NoAnalysis
    /\ searching = NoSearching

NextRebuild == \E order \in SeqsOf(DOMAIN posts) : RebuildIndexes(order)

SpecRebuild == InitRebuild /\ [][NextRebuild]_vars

-----------------------------------------------------------------------------
(* The analyzer on the texts made of at most MaxPieces pieces: a letter, a   *)
(* space, a punctuation character, or a word of Han characters.              *)

Pieces == { <<"p">>, <<"P">>, <<"a">>, <<" ">>, <<"!">> } \cup FREQ

RECURSIVE Flatten(_)
Flatten(q) == IF q = <<>> THEN <<>> ELSE Head(q) \o Flatten(Tail(q))

AnalyzerTexts == {Flatten(q) : q \in UNION {[1..n -> Pieces] : n \in 0..MaxPieces}}

InitAnalyze ==
    /\ docTokens = EmptyMap
    /\ docCount = <<>>
    /\ postings = {}
    /\ ftsCall = NoFtsCall
    /\ ftsPrev = [op |-> "none", id |-> 0, outcome |-> "none"]
    /\ queue = <<>>
    /\ workers = [w \in Workers |-> Idle]
    /\ submitted = EmptyMap
    /\ posts = EmptyMap
    /\ nextPostId = 1
    /\ tags = EmptyMap
    /\ links = {}
    /\ dbCall = NoDbCall
    /\ found = NoSearch
    /\ stamps = <<>>
    /\ pager = NoPager
    /\ rateKey = AbsentKey
    /\ requests = [r \in Requests |-> NewRequest]
    /\ windows = 0
    /\ finders = [c \in Finders |-> NoFinder]
    /\ analysis \in {[stage |-> "text", text |-> x, tokens |-> <<>>, again |-> <<>>] :
                         x \in AnalyzerTexts}
    /\ searching = NoSearching

NextAnalyze == Analyze \/ AnalyzeAgain

SpecAnalyze == InitAnalyze /\ [][NextAnalyze]_vars

-----------------------------------------------------------------------------
(* Requests that call Tag.find_or_create side by side *)

NextFinders ==
    \/ \E c \in Finders, name \in TagNames : FindByName(c, name)
    \/ \E c \in Finders : TagSave(c)
    \/ \E c \in Finders : NextRequest(c)

SpecFinders == Init /\ [][NextFinders]_vars

-----------------------------------------------------------------------------
(* Properties of the sequential index (SpecFts) *)

\* C1: after any sequence of index, reindex and deindex calls, id is a member of
\* the posting set of token T exactly when doc:{id}:tokens exists and has T as a key.
C1_PostingsMirrorTokenMaps ==
    postings = UNION { {<<t, id>> : t \in DOMAIN docTokens[id]} : id \in DOMAIN docTokens }

\* C1 witness: a reindex that rewrote a stored map, after a deindex, with postings left
C1_Witness ==
    /\ ftsCall.op = "reindex" /\ ftsCall.outcome = "reindexed"
    /\ ftsPrev.outcome = "deindexed"
    /\ postings # {}

\* C2: after any sequence of index, reindex, deindex and clear_all_indexes calls,
\* doc_count equals the number of ids whose doc:{id}:tokens key exists.
C2_DocCountIsNumberOfTokenMaps == doc_count(Store) = Cardinality(DOMAIN docTokens)

\* C2 witness: a reindex with a text without tokens removed one of two documents
C2_Witness ==
    /\ ftsCall.op = "reindex" /\ ftsCall.outcome = "deindexed"
    /\ Cardinality(DOMAIN docTokens) = 1

\* C9 as stated: every reindex call leaves doc_count unchanged.
C9_ReindexNeverChangesDocCount ==
    [][ftsCall'.op = "reindex" => doc_count(Store)' = doc_count(Store)]_vars

\* C9 amended: a reindex call on an indexed id with a text that yields at least
\* one token leaves doc_count unchanged.
C9_ReindexOfIndexedKeepsDocCount ==
    [][(/\ ftsCall'.op = "reindex"
        /\ is_indexed(Store, ftsCall'.id)
        /\ analyze(ftsCall'.text) # <<>>)
       => doc_count(Store)' = doc_count(Store)]_vars

\* C9 witness: a reindex that rewrote the token map of an indexed document
C9_Witness ==
    /\ ftsCall.op = "reindex" /\ ftsCall.outcome = "reindexed"
    /\ analyze(ftsCall.text) # <<>>
    /\ doc_count(Store) = 2

\* C10: from every reachable index, for every id that is not indexed and every
\* text with at least one token, index(id, text) then deindex(id) restores
\* doc_count, leaves id not indexed and in no posting set, and leaves the token
\* maps and posting-set memberships of the other ids as they were.
C10_IndexDeindexRoundTrip ==
    \A id \in DocIds, text \in Texts :
        (~is_indexed(Store, id) /\ analyze(text) # <<>>) =>
            LET a == index(Store, id, text)
                b == deindex(a.store, id)
            IN  /\ a.outcome = "indexed" /\ is_indexed(a.store, id)
                /\ b.outcome = "deindexed"
                /\ doc_count(b.store) = doc_count(Store)
                /\ ~is_indexed(b.store, id)
                /\ \A p \in b.store.postings : p[2] # id
                /\ \A other \in DocIds \ {id} :
                       /\ is_indexed(b.store, other) = is_indexed(Store, other)
                       /\ load_tokens(b.store, other) = load_tokens(Store, other)
                /\ {p \in b.store.postings : p[2] # id} = {p \in postings : p[2] # id}

\* C10 witness: index of a new id followed by deindex of it, another document being indexed
C10_Witness ==
    /\ ftsPrev.op = "index" /\ ftsPrev.outcome = "indexed"
    /\ ftsCall.op = "deindex" /\ ftsCall.outcome = "deindexed"
    /\ ftsCall.id = ftsPrev.id
    /\ DOMAIN docTokens # {}

\* a sequential call of the index returned in this step
FtsStep == ftsCall' # ftsCall \/ ftsPrev' # ftsPrev \/ Store' # Store

\* an empty text, or one made of punctuation and white space only
Tokenless(text) == \A i \in DOMAIN text : text[i] \in PUNCTUATION \cup WHITESPACE

\* C16: index(id, text) for an id that is not indexed and a text that is empty
\* or punctuation-only is a no-op: doc_count, the token maps and the posting
\* sets are those before the call, and id is still not indexed.
C16_IndexOfTokenlessTextIsNoOp ==
    [][(/\ FtsStep
        /\ ftsCall'.op = "index"
        /\ ~is_indexed(Store, ftsCall'.id)
        /\ Tokenless(ftsCall'.text))
       => /\ ftsCall'.outcome = "noop"
          /\ docCount' = docCount /\ docTokens' = docTokens /\ postings' = postings
          /\ ~is_indexed(Store', ftsCall'.id)]_vars

\* C16 witness: index of a punctuation-only text for an id that is not
\* indexed returned, another document being indexed
C16_Witness ==
    /\ ftsCall.op = "index" /\ ftsCall.outcome = "noop"
    /\ ftsCall.text # <<>> /\ Tokenless(ftsCall.text)
    /\ ~is_indexed(Store, ftsCall.id)
    /\ doc_count(Store) = 1

\* C17: deindex(id) for an id with no stored token map fails with an error and
\* leaves doc_count, the token maps and the posting sets as they were; hence
\* a deindex that follows a deindex of the same id does not change doc_count.
C17_DeindexOfAbsentIdFails ==
    [][(FtsStep /\ ftsCall'.op = "deindex")
       => /\ ~is_indexed(Store, ftsCall'.id)
             => /\ ftsCall'.outcome = "raised"
                /\ docCount' = docCount /\ docTokens' = docTokens
                /\ postings' = postings
          /\ (ftsCall.op = "deindex" /\ ftsCall.id = ftsCall'.id)
             => docCount' = docCount]_vars

\* C17 witness: a second deindex of an id right after the deindex that removed
\* it, another document being indexed
C17_Witness ==
    /\ ftsPrev.op = "deindex" /\ ftsPrev.outcome = "deindexed"
    /\ ftsCall.op = "deindex" /\ ftsCall.outcome = "raised"
    /\ ftsCall.id = ftsPrev.id
    /\ doc_count(Store) = 1

-----------------------------------------------------------------------------
(* Properties of the posts (SpecPosts) *)

\* the live (deleted_at is null) posts whose parent_id references p
LiveChildren(p) ==
    {c \in DOMAIN posts : ~posts[c].deleted /\ posts[c].parent_id = <<p>>}

\* C3: in every state reached by create-post, soft delete-post, restore-post
\* and update-post(parent_id), the children_count of every post is the number
\* of live posts whose parent_id references it.
C3_ChildrenCountIsLiveChildren ==
    \A p \in DOMAIN posts : posts[p].children_count = Cardinality(LiveChildren(p))

-----------------------------------------------------------------------------
(* Properties of the executor (SpecExec) *)

\* the token map the task leaves behind when the tasks run one after another
TokensOf(task) ==
    IF task.kind = "deindex" THEN EmptyMap ELSE Counter(analyze(task.text))

\* C4: once every submitted task has finished, the token map stored for a post
\* is the one derived from the content of the task submitted last for it, and
\* no map is stored if that task was deindex (or its content has no token),
\* whatever the scheduling of the worker threads was.
C4_TasksTakeEffectInSubmissionOrder ==
    AllDone =>
        \A id \in DOMAIN submitted :
            /\ load_tokens(Store, id) = TokensOf(submitted[id])
            /\ is_indexed(Store, id) <=> DOMAIN TokensOf(submitted[id]) # {}

\* C28: with the tasks of one post running on several workers, check and
\* pipeline being separate steps, fts:doc:count is never negative and, once
\* every task has finished, it is the number of keys fts:doc:{id}:tokens.
C28_DocCountSurvivesConcurrentTasks ==
    /\ doc_count(Store) >= 0
    /\ AllDone => doc_count(Store) = Cardinality(DOMAIN docTokens)


-----------------------------------------------------------------------------
(* Properties of the tag engine (SpecTags) *)

\* the call that led to this state is a rename_or_merge with this outcome
Renamed(call, outcome) == call.op = "rename_or_merge" /\ call.outcome = outcome

\* C5: after a successful rename_or_merge(name, new_name) with name # new_name
\* no tag is named name and no tag has a name that starts with name + '/'.
C5_NoSourceTagRemains ==
    Renamed(dbCall, "ok") =>
        \A t \in DOMAIN tags :
            /\ tags[t] # dbCall.name
            /\ ~StartsWith(tags[t], dbCall.name \o <<"/">>)

\* the source tags of a move of name that post p is linked to before the call
SourcesOf(p, name) ==
    {S \in find_by_name(tags, name) \cup descendants(tags, name) : <<S, p>> \in links}

\* content with '>#' + S.name + '<' replaced by '>#' + new_name + sfx + '<' for
\* the source tags S of order
RECURSIVE ReplaceAll(_, _, _, _)
ReplaceAll(content, order, name, new_name) ==
    IF order = <<>> THEN content
    ELSE ReplaceAll(
             str_replace(content,
                 <<">", "#">> \o tags[Head(order)] \o <<"<">>,
                 <<">", "#">> \o replace_from_start(tags[Head(order)], name, new_name)
                     \o <<"<">>),
             Tail(order), name, new_name)

\* what a successful move of name to new_name does to the posts
Moved(name, new_name) ==
    \A p \in DOMAIN posts :
        IF SourcesOf(p, name) = {}
        THEN /\ posts'[p] = posts[p]
             /\ {l \in links' : l[2] = p} = {l \in links : l[2] = p}
             /\ \A l \in links : l[2] = p => tags'[l[1]] = tags[l[1]]
        ELSE /\ \A S \in SourcesOf(p, name) :
                    /\ Cardinality({t \in DOMAIN tags' :
                           /\ tags'[t] = replace_from_start(tags[S], name, new_name)
                           /\ <<t, p>> \in links'}) = 1
                    /\ ~(<<S, p>> \in links' /\ tags'[S] = tags[S])
             /\ \E order \in SeqsOf(SourcesOf(p, name)) :
                    posts'[p].content = ReplaceAll(posts[p].content, order, name, new_name)

\* C6: a successful rename_or_merge(name, new_name) leaves every post that was
\* linked to a source tag S (named name, or name + sfx for a descendant) linked
\* exactly once to the tag named new_name + sfx and no longer to S, with every
\* '>#' + S.name + '<' of its content replaced by '>#' + new_name + sfx + '<';
\* a post linked to no source tag keeps its links and its content.
C6_PostsFollowTheirTags ==
    [][Renamed(dbCall', "ok") /\ dbCall'.name # dbCall'.new_name
           => Moved(dbCall'.name, dbCall'.new_name)]_vars

\* C7: a rename_or_merge that fails (a rejection, or an error on the way)
\* persists nothing: tags, tag-post links and posts are those before the call,
\* also when the source tag did not exist before it.
C7_FailedRenameChangesNothing ==
    [][Renamed(dbCall', "rejected") \/ Renamed(dbCall', "error")
           => tags' = tags /\ links' = links /\ posts' = posts]_vars

\* C8: rename_or_merge(a, new_name) with new_name = a + '/' + suffix is
\* rejected, and nothing was mutated before the rejection: no tag is created,
\* renamed or merged and no post is changed.
C8_MoveToOwnSubtagIsRejected ==
    [][dbCall'.op = "rename_or_merge"
           /\ StartsWith(dbCall'.new_name, dbCall'.name \o <<"/">>)
           => /\ dbCall'.outcome = "rejected"
              /\ tags' = tags /\ links' = links /\ posts' = posts]_vars

\* a move of a tag that has posts and a subtree to a subtag of itself was rejected
C8_Witness ==
    /\ Renamed(dbCall, "rejected")
    /\ StartsWith(dbCall.new_name, dbCall.name \o <<"/">>)
    /\ \E t \in find_by_name(tags, dbCall.name) : posts_of(links, t) # {}
    /\ descendants(tags, dbCall.name) # {}

\* C18: update-post of a live post with a parent_id that differs from the one
\* it has (null to P, P to null, P to another Q) succeeds, sets the parent_id,
\* takes 1 from the children_count of the old parent, adds 1 to that of the
\* new parent and changes no other children_count.
C18_UpdateParentAdjustsBothCounts ==
    [][\A id \in DOMAIN posts, new \in ParentIds :
           (/\ ~posts[id].deleted
            /\ new # posts[id].parent_id /\ new # <<id>>
            /\ UpdatePost(id, <<>>, <<new>>, <<>>))
           => /\ dbCall'.outcome = "ok"
              /\ posts'[id].parent_id = new
              /\ \A p \in DOMAIN posts :
                     posts'[p].children_count =
                         posts[p].children_count
                             + (IF <<p>> = new THEN 1 ELSE 0)
                             - (IF <<p>> = posts[id].parent_id THEN 1 ELSE 0)]_vars

-----------------------------------------------------------------------------
(* Properties of the listing (SpecPages) *)

\* the posts that pass the filters of the client
Matching == {id \in DOMAIN stamps : (stamps[id].deleted_at # NULL) = pager.deleted}

\* C19: the pages a client receives by passing each returned cursor back hold
\* no post twice and are in the requested order of the order field, and when
\* the listing has ended they hold every post that passes the filters.
C19_PagesListEveryPostOnce ==
    LET key(i) == sort_key(order_field(stamps[pager.seen[i]], pager.order_by))
    IN  /\ ~HasDuplicates(pager.seen)
        /\ \A i, j \in DOMAIN pager.seen :
               i < j => IF pager.ascending THEN key(i) <= key(j) ELSE key(i) >= key(j)
        /\ pager.done => Range(pager.seen) = Matching

-----------------------------------------------------------------------------
(* Properties of the links between tags and posts (SpecLinks)               *)

\* the names of the tags linked to post p
LinkedNames(p) == {tags[l[1]] : l \in {m \in links : m[2] = p}}

\* C27: the names of the tags linked to a post are the hashtag names that
\* HASH_PATTERN finds in its content, and no tag is linked to it twice.
C27_LinksMirrorContent ==
    \A p \in DOMAIN posts :
        /\ LinkedNames(p) = Range(findall(posts[p].content))
        /\ \A l, m \in links : (l[2] = p /\ m[2] = p /\ tags[l[1]] = tags[m[1]]) => l = m

\* a post whose content writes one hashtag twice, after an update of its
\* content or a rename, is linked to that tag
C27_Witness ==
    /\ dbCall.op \in {"update-post", "rename_or_merge"}
    /\ dbCall.outcome = "ok"
    /\ \E p \in DOMAIN posts :
           /\ HasDuplicates(findall(posts[p].content))
           /\ LinkedNames(p) # {}


-----------------------------------------------------------------------------
(* Properties of Tag.delete and Tag.restore (SpecTagPosts) *)

\* the posts that have a link to a tag named name or name/...
LinkedUnder(name) ==
    {p \in DOMAIN posts :
         \E l \in links :
             /\ l[2] = p
             /\ tags[l[1]] = name \/ StartsWith(tags[l[1]], name \o <<"/">>)}

\* C22: after Tag.delete every post linked to the tag or to a descendant of
\* it is soft-deleted, after Tag.restore every such post is live; the tag
\* rows, the links and the other posts are as before.
C22_TagDeleteAndRestoreReachTheSubtree ==
    [][(/\ dbCall'.op \in {"delete-tag", "restore-tag"}
        /\ dbCall'.outcome = "ok"
        /\ dbCall' # dbCall \/ posts' # posts)
       => /\ \A p \in LinkedUnder(dbCall'.name) :
                 posts'[p].deleted = (dbCall'.op = "delete-tag")
          /\ tags' = tags /\ links' = links
          /\ DOMAIN posts' = DOMAIN posts
          /\ \A p \in DOMAIN posts \ LinkedUnder(dbCall'.name) :
                 posts'[p].deleted = posts[p].deleted]_vars

\* C22 witness: a tag was deleted while a live post was linked to a descendant
\* of it only, and a live post under no tag of the subtree stays live
C22_Witness ==
    /\ dbCall.op = "delete-tag" /\ dbCall.outcome = "ok"
    /\ \E p \in LinkedUnder(dbCall.name) :
           /\ posts[p].deleted
           /\ \A l \in links : l[2] = p => tags[l[1]] # dbCall.name
    /\ \E p \in DOMAIN posts \ LinkedUnder(dbCall.name) : ~posts[p].deleted

-----------------------------------------------------------------------------
(* Properties of the analyzer (SpecAnalyze) *)

\* C25: the tokens of a text, joined with spaces and analyzed again, give the
\* same sequence of tokens, also when the segmenter yields the words inside
\* a compound word of Han characters.
C25_AnalyzeIsIdempotent ==
    analysis.stage = "again" => analysis.again = analysis.tokens

-----------------------------------------------------------------------------
(* Properties of the rebuild (SpecRebuild) *)

\* C24: whatever the index held, after a rebuild has run to its end a posting
\* set has id as a member exactly when the token map of id has the token,
\* doc:count is the number of token maps, and the indexed ids are the stored
\* posts whose content has a token.
C24_RebuildRestoresTheIndex ==
    dbCall.op = "rebuild" =>
        /\ postings = {m \in (UNION {DOMAIN docTokens[id] : id \in DOMAIN docTokens}) \X DocIds :
                           m[2] \in DOMAIN docTokens /\ m[1] \in DOMAIN docTokens[m[2]]}
        /\ docCount # <<>> => docCount[1] = Cardinality(DOMAIN docTokens)
        /\ docCount = <<>> => DOMAIN docTokens = {}
        /\ DOMAIN docTokens = {id \in DOMAIN posts : analyze(posts[id].content) # <<>>}
        /\ \A id \in DOMAIN docTokens : docTokens[id] = Counter(analyze(posts[id].content))

\* C24 witness: a rebuild has run on a table with a post that has tokens and
\* one that has none
C24_Witness ==
    /\ dbCall.op = "rebuild"
    /\ \E id \in DOMAIN posts : analyze(posts[id].content) # <<>>
    /\ \E id \in DOMAIN posts : analyze(posts[id].content) = <<>>

-----------------------------------------------------------------------------
(* Properties of the daily sweep (SpecSweep) *)

\* C23: a run of the sweep at the time now removes a post only if its
\* deleted_at is earlier than now minus the retention window (so no live post
\* and no post deleted within the window), leaves the rows it keeps as they
\* were, and leaves no post whose deleted_at is that early.
C23_SweepRemovesExactlyTheOldPosts ==
    [][\A now \in SweepTimes :
           SweepAt(now) =>
               /\ \A id \in DOMAIN stamps \ DOMAIN stamps' :
                      /\ stamps[id].deleted_at # NULL
                      /\ stamps[id].deleted_at[1] < now - RetentionWindow
               /\ \A id \in DOMAIN stamps' :
                      /\ id \in DOMAIN stamps /\ stamps'[id] = stamps[id]
                      /\ stamps[id].deleted_at = NULL
                             \/ stamps[id].deleted_at[1] >= now - RetentionWindow]_vars

\* C23 witness: a sweep removed a post and kept a live post and a deleted one
C23_Witness ==
    /\ DOMAIN stamps # 1..NumRows
    /\ \E id \in DOMAIN stamps : stamps[id].deleted_at = NULL
    /\ \E id \in DOMAIN stamps : stamps[id].deleted_at # NULL

-----------------------------------------------------------------------------
(* Properties of find_or_create under races (SpecFinders) *)

\* C21: every call of find_or_create that has ended has returned the one tag
\* row of its name, also when another request created that row while the
\* call was between its SELECT and its INSERT; no name has two rows.
C21_FindOrCreateSucceedsUnderRaces ==
    /\ \A c \in Finders :
           /\ finders[c].pc # "raised"
           /\ finders[c].pc = "returned" =>
                  find_by_name(tags, finders[c].name) = {finders[c].tag}
    /\ \A t, u \in DOMAIN tags : tags[t] = tags[u] => t = u

-----------------------------------------------------------------------------
(* Properties of the rate limit (SpecRate) *)

\* the requests whose pipeline ran on the w-th key
CountedOn(w) == {r \in Requests : requests[r].pc # "start" /\ requests[r].window = w}

\* C20: of the requests that count on one key (between its creation and its
\* expiry) at most max_count reach the view function, whatever the
\* interleaving; a request is answered 429 exactly when max_count requests
\* had counted on the key before it; and the key never exists without a time
\* to live.
C20_AtMostMaxCountPerKey ==
    /\ \A w \in 1..windows :
           Cardinality({r \in CountedOn(w) : requests[r].pc = "view"}) <= RateMaxCount
    /\ \A r \in Requests :
           LET before == {q \in CountedOn(requests[r].window) : requests[q].rv < requests[r].rv}
           IN  /\ requests[r].pc = "429" => Cardinality(before) >= RateMaxCount
               /\ requests[r].pc = "view" => Cardinality(before) < RateMaxCount
    /\ rateKey.value # NULL => rateKey.ttl

\* C20 witness: on one key max_count requests reached the view function and a
\* further one was answered 429; the key exists
C20_Witness ==
    /\ \E w \in 1..windows :
           /\ Cardinality({r \in CountedOn(w) : requests[r].pc = "view"}) = RateMaxCount
           /\ \E r \in CountedOn(w) : requests[r].pc = "429"
    /\ rateKey.value # NULL

\* C30: a create-post answered 404, its parent_id being the id of no post,
\* leaves the stored state as it was: no post row, no tag row for the hashtags
\* of the rejected content, no link, no children_count changed, no index task.
C30_RejectedCreateChangesNothing ==
    [][\A content \in LinkContents, parent_id \in GivenParents :
          (CreatePost(content, parent_id) /\ dbCall'.outcome = "404") =>
              /\ posts' = posts
              /\ tags' = tags
              /\ links' = links
              /\ queue' = queue /\ submitted' = submitted]_vars

\* C26: the children_count of every post is at least 0, whatever requests
\* were served, a delete-post of a post that is soft-deleted already and a
\* restore-post of a live post included.
C26_ChildrenCountIsNotNegative ==
    \A p \in DOMAIN posts : posts[p].children_count >= 0

-----------------------------------------------------------------------------
(* Properties of hard deletion (SpecPurge) *)

\* the posts whose row was removed
HardDeleted == (1..(nextPostId - 1)) \ DOMAIN posts

\* C11: once every background task has finished, the index holds nothing for
\* a post whose row was hard-deleted (by delete-post with hard = true, by
\* clear-posts or by the retention sweep): no token map, and its id in no
\* posting set.
C11_HardDeletedPostsLeaveTheIndex ==
    AllDone =>
        \A id \in HardDeleted :
            /\ ~is_indexed(Store, id)
            /\ \A l \in postings : l[2] # id

-----------------------------------------------------------------------------
(* Properties of search (SpecSearch) *)

\* the ids of a result list
ResultIds(results) == {results[i][1] : i \in DOMAIN results}

\* the results search can return on the index of this state
Results(query, partial, limit) ==
    {search(Store, query, partial, limit, ids).results :
         ids \in SeqsOf(candidate_ids(Store, analyze(query), partial))}

\* C29: a search beside deindex or clear_all_indexes of one of its candidates
\* completes without raising and returns (id, score) pairs, one per candidate
\* it read: the token map of a candidate or fts:doc:count going away between
\* the posting sets and the ranking pipeline never makes it fail.
C29_SearchSurvivesConcurrentRemoval ==
    searching.pc = "done" =>
        /\ searching.outcome # "raised"
        /\ (searching.ids # <<>> => Len(searching.results) = Len(searching.ids))

\* C12: on every index and for every query, with limit = 0, the ids returned
\* with partial = true include the ids returned with partial = false.
C12_PartialIsSuperset ==
    \A query \in Queries :
        \A all \in Results(query, FALSE, 0), any \in Results(query, TRUE, 0) :
            ResultIds(all) \subseteq ResultIds(any)

\* C12 witness: a search for two tokens with partial = false returned a
\* document while another document holds only one of the tokens
C12_Witness ==
    /\ found.outcome = "found" /\ ~found.partial /\ found.limit = 0
    /\ found.results # <<>>
    /\ candidate_ids(Store, found.tokens, TRUE) # candidate_ids(Store, found.tokens, FALSE)

\* C13: the results of a search are in descending order of score, and results
\* of equal score are in descending order of document id.
C13_RankedByScoreThenId ==
    found.outcome = "found" =>
        \A i, j \in DOMAIN found.results :
            i < j =>
                \/ found.results[i][2] > found.results[j][2]
                \/ /\ found.results[i][2] = found.results[j][2]
                   /\ found.results[i][1] > found.results[j][1]

\* C14: every score a search returns is strictly greater than 0, also on an
\* index that holds one document.
C14_ScoresArePositive ==
    found.outcome = "found" =>
        \A i \in DOMAIN found.results : found.results[i][2] > 0

\* C15: a search with limit > 0 returns the first limit entries of the full
\* ranking (all of them when there are no more than limit); with a limit that
\* is zero or negative it returns the full ranking.
C15_LimitTruncatesOnlyWhenPositive ==
    found.outcome = "found" =>
        \E full \in Results(found.query, found.partial, 0) :
            found.results =
                IF found.limit > 0
                THEN SubSeq(full, 1, Min({found.limit, Len(full)}))
                ELSE full

====
